---- MODULE Spec2Model ----
(***************************************************************************)
(* The background command-execution session manager of system.py           *)
(* (comprehensive_terminal_session_manager_with_background_support),       *)
(* lines 280-696: start, read, terminate, list, the per-session output     *)
(* reader thread and the child process it reads from.                      *)
(*                                                                         *)
(* Callers are threads that execute the manager's methods one statement    *)
(* at a time; the manager holds no lock, so the statements of two callers  *)
(* interleave freely (Spec).  SeqSpec is the same program driven by one    *)
(* caller, whose calls therefore never overlap; reader threads and child   *)
(* processes still run concurrently with it.  FullSpec is Spec started     *)
(* from a manager whose archive is already at capacity, and SeqLongSpec is *)
(* one caller on a manager that is either new or in that state.            *)
(* FairSeqSpec is SeqSpec with calls that return and reader threads that   *)
(* are scheduled.                                                          *)
(*                                                                         *)
(* Text is a sequence of chunk numbers: the k-th line a process writes is  *)
(* <<k>>, string concatenation is \o.  Optional[int] is a sequence of      *)
(* length 0 (None) or 1.                                                   *)
(***************************************************************************)
EXTENDS Integers, Sequences, FiniteSets, TLC

\* ---------------------------------------------------------------- bounds
\* Sessions started in one run.
MaxSessions == 2
\* The size of one run: (processes spawned) * (1 + lines written by all of
\* them) stays within MaxLoad, so a run has one process and up to
\* MaxLoad - 1 lines, or more processes that write less.
MaxLoad == 3
\* self.maximum_completed_sessions_to_retain is 100 in the source (line 316);
\* the model scales it down so that overflow of the archive is reachable.
maximum_completed_sessions_to_retain == 1

Callers == {1, 2}
Objs == 1..MaxSessions
Ids == 1..(MaxSessions + maximum_completed_sessions_to_retain)
None == <<>>
Some(x) == <<x>>
\* values of returned[id] once the lines handed back are no longer 1, 2, 3, ...
Repeated == 0 - 1
Skipped == 0 - 2

VARIABLES
    active_terminal_sessions,   \* Dict[int, session]: id -> session object, 0 = no entry
    completed_session_history,  \* Dict[int, completed]: entries in insertion order
    next_session_id,
    nobj,                       \* session objects (processes) created so far
    sess,                       \* fields of each terminal_session_with_process_tracking
    output_queue,               \* each session's queue.Queue
    proc,                       \* each session's subprocess.Popen and its OS process;
                                \* late: the first line it wrote outside every window
    reader,                     \* each session's output_reader_thread
    pc,                         \* each caller's position
    loc,                        \* each caller's local variables and return value
    returned,                   \* per session id: how many lines start and read have handed
                                \* back, each once and in order; Repeated or Skipped once a
                                \* line was handed back again or left out
    terminated                  \* ids for which a terminate call has returned True

vars == <<active_terminal_sessions, completed_session_history, next_session_id, nobj,
          sess, output_queue, proc, reader, pc, loc, returned, terminated>>

registry == <<active_terminal_sessions, completed_session_history, next_session_id>>
sessions == <<sess, output_queue>>
world == <<proc, reader, nobj>>
history == <<returned, terminated>>

\* ------------------------------------------------------------- data model
\* terminal_session_with_process_tracking as constructed at lines 462-472.
NewSession(id) ==
    [process_id |-> id,
     accumulated_output_buffer |-> <<>>,
     newly_available_output_since_last_read |-> <<>>,
     command_execution_has_completed |-> FALSE,
     last_exit_code |-> None]

NoSession == NewSession(0)

\* (a deviation: the record is built from the pending text)
CompletedSessionAsPending(id, s) ==
    [process_id |-> id,
     complete_output_text |-> s.newly_available_output_since_last_read,
     final_exit_code |-> s.last_exit_code]

\* completed_terminal_session_with_full_history (timestamps left out).
CompletedSession(id, s) ==
    [process_id |-> id,
     complete_output_text |-> s.accumulated_output_buffer,
     final_exit_code |-> s.last_exit_code]

NoCompleted == [process_id |-> 0, complete_output_text |-> <<>>, final_exit_code |-> None]

\* A caller's locals.  op: the method running; session_id: its argument or the
\* id start allocated; obj: the session object it holds; tmp: the value loaded
\* by a read-modify-write; item_type, content: the queue item last taken;
\* polled: process.poll() has returned an exit status to start; out:
\* initial_output / new_output; completed_session: the record built by
\* _move_session_to_completed; oldest_session_id; and the return value:
\* kind, value (the bool of terminate, still_running of start, timeout_reached
\* of read), out (the text returned), code, ids (list's entries).  again: a
\* terminate call had returned True for session_id when terminate was called.
NoLocals ==
    [op |-> "none", session_id |-> 0, obj |-> 0, tmp |-> <<>>, content |-> <<>>,
     out |-> <<>>, completed_session |-> NoCompleted, oldest_session_id |-> 0,
     item_type |-> "none", polled |-> FALSE, wrote |-> FALSE, again |-> FALSE,
     kind |-> "none", value |-> FALSE, code |-> None, ids |-> {}]

\* dict operations on completed_session_history, a dict in insertion order
ArchiveIds == {completed_session_history[i].process_id : i \in DOMAIN completed_session_history}
ActiveIds == {id \in Ids : active_terminal_sessions[id] # 0}

\* (a deviation: the highest key is chosen)
MinAsMax(S) == CHOOSE x \in S : \A y \in S : x >= y

Min(S) == CHOOSE x \in S : \A y \in S : x <= y

IndexOf(hist, id) == CHOOSE i \in DOMAIN hist : hist[i].process_id = id

HasKey(hist, id) == \E i \in DOMAIN hist : hist[i].process_id = id

\* d[id] = c: a key already present keeps its place, a new key goes last
DictSet(hist, id, c) ==
    IF HasKey(hist, id)
    THEN [hist EXCEPT ![IndexOf(hist, id)] = c]
    ELSE Append(hist, c)

\* del d[id], the key present
DictDel(hist, id) ==
    LET i == IndexOf(hist, id)
    IN  SubSeq(hist, 1, i - 1) \o SubSeq(hist, i + 1, Len(hist))

\* lines k+1..n of a process's output as one text
Lines(k, n) == [i \in 1..(n - k) |-> k + i]

TotalEmitted == LET f[o \in 0..MaxSessions] == IF o = 0 THEN 0 ELSE proc[o].emitted + f[o - 1]
                IN  f[MaxSessions]

\* the exit status poll() or wait() reaps from a process that has stopped
ExitStatus(p) == IF p.state = "killed" THEN -15 ELSE 0

\* ------------------------------------------------------------------- Init
Init ==
    /\ active_terminal_sessions = [id \in Ids |-> 0]
    /\ completed_session_history = <<>>
    /\ next_session_id = 1
    /\ nobj = 0
    /\ sess = [o \in Objs |-> NoSession]
    /\ output_queue = [o \in Objs |-> <<>>]
    /\ proc = [o \in Objs |-> [state |-> "none", emitted |-> 0, returncode |-> None, late |-> 0]]
    /\ reader = [o \in Objs |-> [pc |-> "none", pos |-> 0]]
    /\ pc = [t \in Callers |-> "idle"]
    /\ loc = [t \in Callers |-> NoLocals]
    /\ returned = [id \in Ids |-> 0]
    /\ terminated = {}

\* A method's return value is observed in the state its last statement
\* leaves: the caller picks it up before anything else moves.
Quiet == \A u \in Callers : pc[u] # "ret"

\* Caller t is about to execute the statement at position p.
At(t, p) == pc[t] = p /\ Quiet

\* Callers are interchangeable: of two idle callers it is caller 1 that calls.
MayCall(t) == At(t, "idle") /\ (t = 1 \/ pc[1] # "idle")

\* ------------------------------------------------- unreachable objects
\* A session object that is in no entry of the active map and that no caller
\* holds can no longer be observed (its reader thread and process only feed
\* its own queue): it is dropped.  The text remembered for an id is dropped
\* when the id has left both maps.
Referenced(act, lc, o) ==
    \/ \E id \in Ids : act[id] = o
    \/ \E t \in Callers : lc[t].obj = o

Sweep(act, lc, s, q, r) ==
    /\ sess' = [o \in Objs |-> IF Referenced(act, lc, o) THEN s[o] ELSE NoSession]
    /\ output_queue' = [o \in Objs |-> IF Referenced(act, lc, o) THEN q[o] ELSE <<>>]
    /\ proc' = [o \in Objs |->
                  IF Referenced(act, lc, o) \/ proc[o].state = "none" THEN proc[o]
                  ELSE [state |-> "gone", emitted |-> proc[o].emitted, returncode |-> None,
                        late |-> 0]]
    /\ reader' = [o \in Objs |->
                  IF Referenced(act, lc, o) \/ proc[o].state = "none" THEN r[o]
                  ELSE [pc |-> "gone", pos |-> 0]]

Remembered(act, hist, r) ==
    [id \in Ids |-> IF act[id] # 0 \/ HasKey(hist, id) THEN r[id] ELSE 0]

\* A return of output text for the id: it continues the lines handed back so
\* far, or it starts with a line handed back before, or it leaves one out.
Hand(id, text) ==
    IF id \in Ids /\ returned[id] >= 0
    THEN [returned EXCEPT ![id] = IF text = Lines(@, @ + Len(text)) THEN @ + Len(text)
                                  ELSE IF text[1] <= @ THEN Repeated
                                  ELSE Skipped]
    ELSE returned

\* --------------------------------------------------- the child process
\* Session object o is registered and no call of start or read is working on
\* it: start has returned and no read is inside its window.
OutsideWindow(o) ==
    /\ \E id \in Ids : active_terminal_sessions[id] = o
    /\ \A t \in Callers : loc[t].obj # o

\* The process writes its next line to the pipe; late remembers the first
\* line written outside every window.
ProcEmit(o) ==
    /\ Quiet
    /\ proc[o].state = "running"
    /\ nobj * (2 + TotalEmitted) <= MaxLoad
    /\ proc' = [proc EXCEPT ![o].emitted = @ + 1,
                            ![o].late = IF @ = 0 /\ OutsideWindow(o)
                                        THEN proc[o].emitted + 1 ELSE @]
    /\ UNCHANGED <<registry, sessions, reader, nobj, pc, loc, history>>

\* The process exits by itself.
ProcExit(o) ==
    /\ Quiet
    /\ proc[o].state = "running"
    /\ proc' = [proc EXCEPT ![o].state = "exited"]
    /\ UNCHANGED <<registry, sessions, reader, nobj, pc, loc, history>>

\* ------------------------------------------- output_reader_thread (437-455)
\* readline returns a line: put it, then poll; a process found stopped ends
\* the loop (lines 440-444).
ReaderLine(o) ==
    /\ Quiet
    /\ reader[o].pc = "loop"
    /\ reader[o].pos < proc[o].emitted
    /\ output_queue' = [output_queue EXCEPT
            ![o] = Append(@, [type |-> "output", content |-> <<reader[o].pos + 1>>])]
    /\ IF proc[o].state # "running"
       THEN /\ proc' = [proc EXCEPT ![o].returncode = Some(ExitStatus(proc[o]))]
            /\ reader' = [reader EXCEPT ![o] = [pc |-> "rest", pos |-> @.pos + 1]]
       ELSE /\ proc' = proc
            /\ reader' = [reader EXCEPT ![o].pos = @ + 1]
    /\ UNCHANGED <<registry, sess, nobj, pc, loc, history>>

\* After the break: remaining_output = process.stdout.read() is put if not
\* empty, then ('completed', process.returncode) (446-452).
ReaderRest(o) ==
    /\ Quiet
    /\ reader[o].pc = "rest"
    /\ output_queue' = [output_queue EXCEPT
            ![o] = (IF reader[o].pos < proc[o].emitted
                    THEN Append(@, [type |-> "output",
                                    content |-> Lines(reader[o].pos, proc[o].emitted)])
                    ELSE @)
                   \o <<[type |-> "completed", content |-> proc[o].returncode]>>]
    /\ reader' = [reader EXCEPT ![o] = [pc |-> "done", pos |-> proc[o].emitted]]
    /\ UNCHANGED <<registry, sess, proc, nobj, pc, loc, history>>

\* readline returns '' at end of stream: the loop ends without a poll, nothing
\* remains, ('completed', process.returncode) is put (440, 446-452).
ReaderEOF(o) ==
    /\ Quiet
    /\ reader[o].pc = "loop"
    /\ reader[o].pos = proc[o].emitted
    /\ proc[o].state # "running"
    /\ output_queue' = [output_queue EXCEPT
            ![o] = Append(@, [type |-> "completed", content |-> proc[o].returncode])]
    /\ reader' = [reader EXCEPT ![o].pc = "done"]
    /\ UNCHANGED <<registry, sess, proc, nobj, pc, loc, history>>

\* (a deviation: after the 'error' item the completion is signalled as well)
ReaderErrorAsBoth(o) ==
    /\ Quiet
    /\ reader[o].pc = "loop"
    /\ reader[o].pos < proc[o].emitted
    /\ output_queue' = [output_queue EXCEPT
            ![o] = @ \o <<[type |-> "error", content |-> <<>>],
                          [type |-> "completed", content |-> proc[o].returncode]>>]
    /\ reader' = [reader EXCEPT ![o] = [pc |-> "failed", pos |-> @.pos + 1]]
    /\ UNCHANGED <<registry, sess, proc, nobj, pc, loc, history>>

\* Reading the stream raises (a line that cannot be decoded): the line is
\* lost and ('error', str(e)) is put (454-455).
ReaderError(o) ==
    /\ Quiet
    /\ reader[o].pc = "loop"
    /\ reader[o].pos < proc[o].emitted
    /\ output_queue' = [output_queue EXCEPT
            ![o] = Append(@, [type |-> "error", content |-> <<>>])]
    /\ reader' = [reader EXCEPT ![o] = [pc |-> "failed", pos |-> @.pos + 1]]
    /\ UNCHANGED <<registry, sess, proc, nobj, pc, loc, history>>

\* ------------------------------------------------------------ returning
\* The method returns: the caller's locals and return value are dropped.
Return(t) ==
    /\ pc[t] = "ret"
    /\ pc' = [pc EXCEPT ![t] = "idle"]
    /\ loc' = [loc EXCEPT ![t] = NoLocals]
    /\ Sweep(active_terminal_sessions, loc', sess, output_queue, reader)
    /\ UNCHANGED <<registry, nobj, history>>

\* --------- start_command_execution_with_timeout_and_background_support
\* subprocess.Popen succeeds (369-428); session_id = self.next_session_id (431).
StartSpawn(t) ==
    /\ MayCall(t)
    /\ (nobj + 1) * (1 + TotalEmitted) <= MaxLoad
    /\ nobj < MaxSessions
    /\ next_session_id \in Ids
    /\ nobj' = nobj + 1
    /\ proc' = [proc EXCEPT ![nobj + 1].state = "running"]
    /\ pc' = [pc EXCEPT ![t] = "s_reg"]
    /\ loc' = [loc EXCEPT ![t] = [NoLocals EXCEPT !.op = "start", !.obj = nobj + 1,
                                                  !.session_id = next_session_id]]
    /\ UNCHANGED <<registry, sessions, reader, history>>

\* (a deviation: the failed spawn has consumed an id)
StartSpawnFailsConsumes(t) ==
    /\ MayCall(t)
    /\ next_session_id' = next_session_id + 1
    /\ pc' = [pc EXCEPT ![t] = "ret"]
    /\ loc' = [loc EXCEPT ![t] = [NoLocals EXCEPT !.op = "start", !.session_id = -1,
                                                  !.kind = "failed", !.value = FALSE]]
    /\ UNCHANGED <<active_terminal_sessions, completed_session_history, sessions, world,
                   history>>

\* subprocess.Popen raises: the except clause returns the sentinel (521-528).
StartSpawnFails(t) ==
    /\ MayCall(t)
    /\ pc' = [pc EXCEPT ![t] = "ret"]
    /\ loc' = [loc EXCEPT ![t] = [NoLocals EXCEPT !.op = "start", !.session_id = -1,
                                                  !.kind = "failed", !.value = FALSE]]
    /\ UNCHANGED <<registry, sessions, world, history>>

\* (a deviation: the id counter is not advanced)
StartRegisterNoIncrement(t) ==
    /\ At(t, "s_reg")
    /\ LET o == loc[t].obj
           id == loc[t].session_id
       IN  /\ next_session_id' = next_session_id
           /\ active_terminal_sessions' = [active_terminal_sessions EXCEPT ![id] = o]
           /\ Sweep(active_terminal_sessions', loc,
                    [sess EXCEPT ![o] = NewSession(id)], output_queue,
                    [reader EXCEPT ![o].pc = "loop"])
    /\ pc' = [pc EXCEPT ![t] = "s_loop"]
    /\ UNCHANGED <<completed_session_history, nobj, loc, history>>

\* self.next_session_id += 1 (432); the reader thread is started, the session
\* object is built and stored in the active map (457-474).
StartRegister(t) ==
    /\ At(t, "s_reg")
    /\ LET o == loc[t].obj
           id == loc[t].session_id
       IN  /\ next_session_id' = next_session_id + 1
           /\ active_terminal_sessions' = [active_terminal_sessions EXCEPT ![id] = o]
           /\ Sweep(active_terminal_sessions', loc,
                    [sess EXCEPT ![o] = NewSession(id)], output_queue,
                    [reader EXCEPT ![o].pc = "loop"])
    /\ pc' = [pc EXCEPT ![t] = "s_loop"]
    /\ UNCHANGED <<completed_session_history, nobj, loc, history>>

\* self.next_session_id += 1 (432), then threading.Thread.start() raises
\* ("can't start new thread", 458-459): the except clause returns the sentinel
\* (521-528); the process stays behind, no session was built.
StartThreadFails(t) ==
    /\ At(t, "s_reg")
    /\ next_session_id' = next_session_id + 1
    /\ loc' = [loc EXCEPT ![t].session_id = -1, ![t].kind = "failed", ![t].value = FALSE]
    /\ pc' = [pc EXCEPT ![t] = "ret"]
    /\ UNCHANGED <<active_terminal_sessions, completed_session_history, sessions, world,
                   history>>

\* The window is over: the while condition is false (481).
StartTimeout(t) ==
    /\ At(t, "s_loop")
    /\ pc' = [pc EXCEPT ![t] = "s_fin"]
    /\ UNCHANGED <<registry, sessions, world, loc, history>>

\* output_queue.get returns an item (484-500); for an output item the caller
\* goes on to load session.accumulated_output_buffer (488).
StartGet(t) ==
    /\ At(t, "s_loop")
    /\ output_queue[loc[t].obj] # <<>>
    /\ LET o == loc[t].obj
           item == Head(output_queue[o])
       IN  /\ output_queue' = [output_queue EXCEPT ![o] = Tail(@)]
           /\ CASE item.type = "output" ->
                     /\ loc' = [loc EXCEPT ![t].out = @ \o item.content,
                                           ![t].item_type = item.type,
                                           ![t].content = item.content,
                                           ![t].tmp = sess[o].accumulated_output_buffer]
                     /\ pc' = [pc EXCEPT ![t] = "s_store"]
                     /\ UNCHANGED <<sess, returned>>
                [] item.type = "completed" ->
                     /\ sess' = [sess EXCEPT ![o].command_execution_has_completed = TRUE,
                                             ![o].last_exit_code = item.content]
                     /\ loc' = [loc EXCEPT ![t].item_type = item.type]
                     /\ pc' = [pc EXCEPT ![t] = "s_fin"]
                     /\ returned' = returned
                [] OTHER ->
                     /\ loc' = [loc EXCEPT ![t].kind = "error", ![t].value = FALSE,
                                           ![t].item_type = item.type]
                     /\ returned' = Hand(loc[t].session_id, loc[t].out)
                     /\ pc' = [pc EXCEPT ![t] = "ret"]
                     /\ UNCHANGED sess
    /\ UNCHANGED <<registry, world, terminated>>

\* (a deviation: the poll reports an exit status also for a running process)
StartEmptyAsExited(t) ==
    /\ At(t, "s_loop")
    /\ output_queue[loc[t].obj] = <<>>
    /\ LET o == loc[t].obj
       IN  /\ proc' = [proc EXCEPT ![o].returncode = Some(ExitStatus(proc[o]))]
           /\ sess' = [sess EXCEPT ![o].command_execution_has_completed = TRUE,
                                   ![o].last_exit_code = Some(ExitStatus(proc[o]))]
           /\ loc' = [loc EXCEPT ![t].polled = TRUE]
           /\ pc' = [pc EXCEPT ![t] = "s_fin"]
    /\ UNCHANGED <<registry, output_queue, reader, nobj, history>>

\* output_queue.get raises queue.Empty; process.poll() (502-508).
StartEmpty(t) ==
    /\ At(t, "s_loop")
    /\ output_queue[loc[t].obj] = <<>>
    /\ LET o == loc[t].obj
       IN  IF proc[o].state # "running"
           THEN /\ proc' = [proc EXCEPT ![o].returncode = Some(ExitStatus(proc[o]))]
                /\ sess' = [sess EXCEPT ![o].command_execution_has_completed = TRUE,
                                        ![o].last_exit_code = Some(ExitStatus(proc[o]))]
                /\ loc' = [loc EXCEPT ![t].polled = TRUE]
                /\ pc' = [pc EXCEPT ![t] = "s_fin"]
           ELSE UNCHANGED <<proc, sess, pc, loc>>
    /\ UNCHANGED <<registry, output_queue, reader, nobj, history>>

\* session.accumulated_output_buffer += content stores what it loaded plus
\* the content; session.newly_available_output_since_last_read += content
\* (488-489).
StartStore(t) ==
    /\ At(t, "s_store")
    /\ sess' = [sess EXCEPT
            ![loc[t].obj].accumulated_output_buffer = loc[t].tmp \o loc[t].content,
            ![loc[t].obj].newly_available_output_since_last_read = @ \o loc[t].content]
    /\ loc' = [loc EXCEPT ![t].tmp = <<>>, ![t].content = <<>>]
    /\ pc' = [pc EXCEPT ![t] = "s_loop"]
    /\ UNCHANGED <<registry, output_queue, world, history>>

\* (a deviation: start always reports the command as still running)
StartFinishAsRunning(t) ==
    /\ At(t, "s_fin")
    /\ loc' = [loc EXCEPT ![t].kind = "started", ![t].value = TRUE]
    /\ returned' = Hand(loc[t].session_id, loc[t].out)
    /\ pc' = [pc EXCEPT ![t] = "ret"]
    /\ UNCHANGED <<registry, sessions, world, terminated>>

\* is_still_running = not session.command_execution_has_completed; return (511-519)
StartFinish(t) ==
    /\ At(t, "s_fin")
    /\ loc' = [loc EXCEPT ![t].kind = "started",
                          ![t].value = ~sess[loc[t].obj].command_execution_has_completed]
    /\ returned' = Hand(loc[t].session_id, loc[t].out)
    /\ pc' = [pc EXCEPT ![t] = "ret"]
    /\ UNCHANGED <<registry, sessions, world, terminated>>

\* ------------------------------------------- _move_session_to_completed
\* (a deviation: terminate returns False after the move)
MoveReturnsAsFalse(t) ==
    /\ pc' = [pc EXCEPT ![t] = "ret"]
    /\ loc' = [loc EXCEPT ![t] =
                 IF loc[t].op = "read"
                 THEN [@ EXCEPT !.kind = "completed_msg", !.value = FALSE,
                                !.code = loc[t].content]
                 ELSE [@ EXCEPT !.kind = "terminated", !.value = FALSE]]
    /\ terminated' = IF loc[t].op = "terminate"
                     THEN terminated \cup {loc[t].session_id}
                     ELSE terminated

\* The caller's method goes on after _move_session_to_completed has returned:
\* read returns "Process completed with exit code <content>" (571-574; its
\* new_output is empty whenever it dequeues 'completed'), terminate returns
\* True (644-645).
MoveReturns(t) ==
    /\ pc' = [pc EXCEPT ![t] = "ret"]
    /\ loc' = [loc EXCEPT ![t] =
                 IF loc[t].op = "read"
                 THEN [@ EXCEPT !.kind = "completed_msg", !.value = FALSE,
                                !.code = loc[t].content]
                 ELSE [@ EXCEPT !.kind = "terminated", !.value = TRUE]]
    /\ terminated' = IF loc[t].op = "terminate"
                     THEN terminated \cup {loc[t].session_id}
                     ELSE terminated

\* A del raises KeyError: it leaves read, and terminate's except clause
\* returns False (647-649).
MoveRaises(t) ==
    /\ pc' = [pc EXCEPT ![t] = "ret"]
    /\ loc' = [loc EXCEPT ![t].kind = "keyerror", ![t].value = FALSE]
    /\ terminated' = terminated

\* session = self.active_terminal_sessions.get(session_id); return if there
\* is none; build the completed session (673-683).
MoveGet(t) ==
    /\ At(t, "mv_get")
    /\ LET o == active_terminal_sessions[loc[t].session_id]
       IN  IF o = 0
           THEN /\ MoveReturns(t)
           ELSE /\ loc' = [loc EXCEPT ![t].completed_session =
                                          CompletedSession(loc[t].session_id, sess[o])]
                /\ pc' = [pc EXCEPT ![t] = "mv_put"]
                /\ terminated' = terminated
    /\ UNCHANGED <<registry, sessions, world, returned>>

\* (a deviation: the entry just inserted is never the one chosen for eviction)
MovePutAsOldOnly(t) ==
    /\ At(t, "mv_put")
    /\ LET hist == DictSet(completed_session_history, loc[t].session_id,
                           loc[t].completed_session)
           ids == {hist[i].process_id : i \in DOMAIN hist} \ {loc[t].session_id}
       IN  /\ completed_session_history' = hist
           /\ IF Len(hist) > maximum_completed_sessions_to_retain /\ ids # {}
              THEN /\ loc' = [loc EXCEPT ![t].wrote = TRUE, ![t].oldest_session_id = Min(ids)]
                   /\ pc' = [pc EXCEPT ![t] = "mv_evict"]
              ELSE /\ loc' = [loc EXCEPT ![t].wrote = TRUE]
                   /\ pc' = [pc EXCEPT ![t] = "mv_del"]
    /\ UNCHANGED <<active_terminal_sessions, next_session_id, sessions, world, history>>

\* self.completed_session_history[session_id] = completed_session; the length
\* test and oldest_session_id = min(keys) (685-689).
MovePut(t) ==
    /\ At(t, "mv_put")
    /\ LET hist == DictSet(completed_session_history, loc[t].session_id,
                           loc[t].completed_session)
           ids == {hist[i].process_id : i \in DOMAIN hist}
       IN  /\ completed_session_history' = hist
           /\ IF Len(hist) > maximum_completed_sessions_to_retain
              THEN /\ loc' = [loc EXCEPT ![t].wrote = TRUE, ![t].oldest_session_id = Min(ids)]
                   /\ pc' = [pc EXCEPT ![t] = "mv_evict"]
              ELSE /\ loc' = [loc EXCEPT ![t].wrote = TRUE]
                   /\ pc' = [pc EXCEPT ![t] = "mv_del"]
    /\ UNCHANGED <<active_terminal_sessions, next_session_id, sessions, world, history>>

\* del self.completed_session_history[oldest_session_id] (690)
MoveEvict(t) ==
    /\ At(t, "mv_evict")
    /\ IF HasKey(completed_session_history, loc[t].oldest_session_id)
       THEN /\ completed_session_history' =
                   DictDel(completed_session_history, loc[t].oldest_session_id)
            /\ returned' = Remembered(active_terminal_sessions,
                                      completed_session_history', returned)
            /\ pc' = [pc EXCEPT ![t] = "mv_del"]
            /\ UNCHANGED <<loc, terminated>>
       ELSE /\ MoveRaises(t)
            /\ UNCHANGED <<completed_session_history, returned>>
    /\ UNCHANGED <<active_terminal_sessions, next_session_id, sessions, world>>

\* del self.active_terminal_sessions[session_id] (693)
MoveDelete(t) ==
    /\ At(t, "mv_del")
    /\ IF active_terminal_sessions[loc[t].session_id] # 0
       THEN /\ active_terminal_sessions' =
                   [active_terminal_sessions EXCEPT ![loc[t].session_id] = 0]
            /\ MoveReturns(t)
            /\ Sweep(active_terminal_sessions', loc', sess, output_queue, reader)
            /\ returned' = Remembered(active_terminal_sessions',
                                      completed_session_history, returned)
       ELSE /\ MoveRaises(t)
            /\ UNCHANGED <<active_terminal_sessions, sessions, proc, reader, returned>>
    /\ UNCHANGED <<completed_session_history, next_session_id, nobj>>

\* ------------------------------ read_new_output_from_session_with_timeout
\* (a deviation: an unknown id is answered as a timeout)
ReadBeginAsTimeout(t, id) ==
    /\ MayCall(t)
    /\ LET o == active_terminal_sessions[id]
           l == [NoLocals EXCEPT !.op = "read", !.session_id = id]
       IN  CASE o = 0 /\ HasKey(completed_session_history, id) ->
                  LET c == completed_session_history[IndexOf(completed_session_history, id)]
                  IN  /\ loc' = [loc EXCEPT ![t] = [l EXCEPT !.kind = "summary",
                                      !.out = c.complete_output_text,
                                      !.code = c.final_exit_code]]
                      /\ pc' = [pc EXCEPT ![t] = "ret"]
            [] o = 0 /\ ~HasKey(completed_session_history, id) ->
                  /\ loc' = [loc EXCEPT ![t] = [l EXCEPT !.kind = "timeout", !.value = TRUE]]
                  /\ pc' = [pc EXCEPT ![t] = "ret"]
            [] o # 0 /\ sess[o].newly_available_output_since_last_read # <<>> ->
                  /\ loc' = [loc EXCEPT ![t] = [l EXCEPT !.obj = o,
                                      !.out = sess[o].newly_available_output_since_last_read]]
                  /\ pc' = [pc EXCEPT ![t] = "r_clear"]
            [] OTHER ->
                  /\ loc' = [loc EXCEPT ![t] = [l EXCEPT !.obj = o]]
                  /\ pc' = [pc EXCEPT ![t] = "r_loop"]
    /\ UNCHANGED <<registry, sessions, world, history>>

\* (a deviation: reading an archived id removes its entry)
ReadBeginAsTake(t, id) ==
    /\ MayCall(t)
    /\ LET o == active_terminal_sessions[id]
           l == [NoLocals EXCEPT !.op = "read", !.session_id = id]
       IN  CASE o = 0 /\ HasKey(completed_session_history, id) ->
                  LET c == completed_session_history[IndexOf(completed_session_history, id)]
                  IN  /\ loc' = [loc EXCEPT ![t] = [l EXCEPT !.kind = "summary",
                                      !.out = c.complete_output_text,
                                      !.code = c.final_exit_code]]
                      /\ completed_session_history' = DictDel(completed_session_history, id)
                      /\ pc' = [pc EXCEPT ![t] = "ret"]
            [] o = 0 /\ ~HasKey(completed_session_history, id) ->
                  /\ loc' = [loc EXCEPT ![t] = [l EXCEPT !.kind = "no_session"]]
                  /\ pc' = [pc EXCEPT ![t] = "ret"]
                  /\ UNCHANGED completed_session_history
            [] o # 0 /\ sess[o].newly_available_output_since_last_read # <<>> ->
                  /\ loc' = [loc EXCEPT ![t] = [l EXCEPT !.obj = o,
                                      !.out = sess[o].newly_available_output_since_last_read]]
                  /\ pc' = [pc EXCEPT ![t] = "r_clear"]
                  /\ UNCHANGED completed_session_history
            [] OTHER ->
                  /\ loc' = [loc EXCEPT ![t] = [l EXCEPT !.obj = o]]
                  /\ pc' = [pc EXCEPT ![t] = "r_loop"]
                  /\ UNCHANGED completed_session_history
    /\ UNCHANGED <<active_terminal_sessions, next_session_id, sessions, world, history>>

\* The two lookups and the test of the pending text (537-548): an archived id
\* gets the summary, an unknown id "No session found", an active session
\* with pending text takes it, any other active session enters the wait loop.
ReadBegin(t, id) ==
    /\ MayCall(t)
    /\ LET o == active_terminal_sessions[id]
           l == [NoLocals EXCEPT !.op = "read", !.session_id = id]
       IN  CASE o = 0 /\ HasKey(completed_session_history, id) ->
                  LET c == completed_session_history[IndexOf(completed_session_history, id)]
                  IN  /\ loc' = [loc EXCEPT ![t] = [l EXCEPT !.kind = "summary",
                                      !.out = c.complete_output_text,
                                      !.code = c.final_exit_code]]
                      /\ returned' = returned
                      /\ pc' = [pc EXCEPT ![t] = "ret"]
            [] o = 0 /\ ~HasKey(completed_session_history, id) ->
                  /\ loc' = [loc EXCEPT ![t] = [l EXCEPT !.kind = "no_session"]]
                  /\ pc' = [pc EXCEPT ![t] = "ret"]
                  /\ returned' = returned
            [] o # 0 /\ sess[o].newly_available_output_since_last_read # <<>> ->
                  /\ loc' = [loc EXCEPT ![t] = [l EXCEPT !.obj = o,
                                      !.out = sess[o].newly_available_output_since_last_read]]
                  /\ pc' = [pc EXCEPT ![t] = "r_clear"]
                  /\ returned' = returned
            [] OTHER ->
                  /\ loc' = [loc EXCEPT ![t] = [l EXCEPT !.obj = o]]
                  /\ pc' = [pc EXCEPT ![t] = "r_loop"]
                  /\ returned' = returned
    /\ UNCHANGED <<registry, sessions, world, terminated>>

\* (a deviation: the pending text is returned but not cleared)
ReadClearAsKeep(t) ==
    /\ At(t, "r_clear")
    /\ sess' = sess
    /\ loc' = [loc EXCEPT ![t].kind = "pending", ![t].value = FALSE]
    /\ returned' = Hand(loc[t].session_id, loc[t].out)
    /\ pc' = [pc EXCEPT ![t] = "ret"]
    /\ UNCHANGED <<registry, output_queue, world, terminated>>

\* session.newly_available_output_since_last_read = ""; return output, False (549-550)
ReadClear(t) ==
    /\ At(t, "r_clear")
    /\ sess' = [sess EXCEPT ![loc[t].obj].newly_available_output_since_last_read = <<>>]
    /\ loc' = [loc EXCEPT ![t].kind = "pending", ![t].value = FALSE]
    /\ returned' = Hand(loc[t].session_id, loc[t].out)
    /\ pc' = [pc EXCEPT ![t] = "ret"]
    /\ UNCHANGED <<registry, output_queue, world, terminated>>

\* (a deviation: a read that times out stops the session's reader)
ReadTimeoutAsCancel(t) ==
    /\ At(t, "r_loop")
    /\ loc' = [loc EXCEPT ![t].kind = "timeout", ![t].value = TRUE]
    /\ reader' = [reader EXCEPT ![loc[t].obj].pc = "done"]
    /\ pc' = [pc EXCEPT ![t] = "ret"]
    /\ UNCHANGED <<registry, sessions, proc, nobj, history>>

\* The while condition is false: "No new output available", True (557, 592;
\* new_output is empty at every test of the condition).
ReadTimeout(t) ==
    /\ At(t, "r_loop")
    /\ loc' = [loc EXCEPT ![t].kind = "timeout", ![t].value = TRUE]
    /\ pc' = [pc EXCEPT ![t] = "ret"]
    /\ UNCHANGED <<registry, sessions, world, history>>

\* (a deviation: an error item is handled like a completed item)
ReadGetAsArchiving(t) ==
    /\ At(t, "r_loop")
    /\ output_queue[loc[t].obj] # <<>>
    /\ LET o == loc[t].obj
           item == Head(output_queue[o])
       IN  /\ output_queue' = [output_queue EXCEPT ![o] = Tail(@)]
           /\ CASE item.type = "output" ->
                     /\ loc' = [loc EXCEPT ![t].out = item.content,
                                           ![t].item_type = item.type,
                                           ![t].content = item.content,
                                           ![t].tmp = sess[o].accumulated_output_buffer]
                     /\ pc' = [pc EXCEPT ![t] = "r_store"]
                     /\ sess' = sess
                [] OTHER ->
                     /\ sess' = [sess EXCEPT ![o].command_execution_has_completed = TRUE,
                                             ![o].last_exit_code = item.content]
                     /\ loc' = [loc EXCEPT ![t].item_type = item.type,
                                           ![t].content = item.content]
                     /\ pc' = [pc EXCEPT ![t] = "mv_get"]
    /\ UNCHANGED <<registry, world, history>>

\* session.output_queue.get returns an item (559-576).
ReadGet(t) ==
    /\ At(t, "r_loop")
    /\ output_queue[loc[t].obj] # <<>>
    /\ LET o == loc[t].obj
           item == Head(output_queue[o])
       IN  /\ output_queue' = [output_queue EXCEPT ![o] = Tail(@)]
           /\ CASE item.type = "output" ->
                     /\ loc' = [loc EXCEPT ![t].out = item.content,
                                           ![t].item_type = item.type,
                                           ![t].content = item.content,
                                           ![t].tmp = sess[o].accumulated_output_buffer]
                     /\ pc' = [pc EXCEPT ![t] = "r_store"]
                     /\ sess' = sess
                [] item.type = "completed" ->
                     /\ sess' = [sess EXCEPT ![o].command_execution_has_completed = TRUE,
                                             ![o].last_exit_code = item.content]
                     /\ loc' = [loc EXCEPT ![t].item_type = item.type,
                                           ![t].content = item.content]
                     /\ pc' = [pc EXCEPT ![t] = "mv_get"]
                [] OTHER ->
                     /\ loc' = [loc EXCEPT ![t].kind = "error", ![t].value = FALSE,
                                           ![t].item_type = item.type]
                     /\ pc' = [pc EXCEPT ![t] = "ret"]
                     /\ sess' = sess
    /\ UNCHANGED <<registry, world, history>>

\* session.output_queue.get raises queue.Empty (582-589).
ReadEmpty(t) ==
    /\ At(t, "r_loop")
    /\ output_queue[loc[t].obj] = <<>>
    /\ IF sess[loc[t].obj].command_execution_has_completed
       THEN /\ loc' = [loc EXCEPT ![t].kind = "completed_msg", ![t].value = FALSE,
                                  ![t].code = sess[loc[t].obj].last_exit_code]
            /\ pc' = [pc EXCEPT ![t] = "ret"]
       ELSE UNCHANGED <<loc, pc>>
    /\ UNCHANGED <<registry, sessions, world, history>>

\* session.accumulated_output_buffer += content stores what it loaded plus
\* the content; return new_output, False (563, 579-580).
ReadStore(t) ==
    /\ At(t, "r_store")
    /\ sess' = [sess EXCEPT
            ![loc[t].obj].accumulated_output_buffer = loc[t].tmp \o loc[t].content]
    /\ loc' = [loc EXCEPT ![t].kind = "output", ![t].value = FALSE,
                          ![t].tmp = <<>>, ![t].content = <<>>]
    /\ returned' = Hand(loc[t].session_id, loc[t].out)
    /\ pc' = [pc EXCEPT ![t] = "ret"]
    /\ UNCHANGED <<registry, output_queue, world, terminated>>

\* ----------------------------------- force_terminate_session_with_cleanup
\* (a deviation: an id without active entry is answered True)
TerminateBeginAsTrue(t, id) ==
    /\ MayCall(t)
    /\ LET o == active_terminal_sessions[id]
           l == [NoLocals EXCEPT !.op = "terminate", !.session_id = id,
                                 !.again = (id \in terminated)]
       IN  IF o = 0
           THEN /\ loc' = [loc EXCEPT ![t] = [l EXCEPT !.kind = "not_active", !.value = TRUE]]
                /\ pc' = [pc EXCEPT ![t] = "ret"]
           ELSE /\ loc' = [loc EXCEPT ![t] = [l EXCEPT !.obj = o]]
                /\ pc' = [pc EXCEPT ![t] = "t_stop"]
    /\ UNCHANGED <<registry, sessions, world, history>>

\* session = self.active_terminal_sessions.get(session_id); False if none (597-599)
TerminateBegin(t, id) ==
    /\ MayCall(t)
    /\ LET o == active_terminal_sessions[id]
           l == [NoLocals EXCEPT !.op = "terminate", !.session_id = id,
                                 !.again = (id \in terminated)]
       IN  IF o = 0
           THEN /\ loc' = [loc EXCEPT ![t] = [l EXCEPT !.kind = "not_active", !.value = FALSE]]
                /\ pc' = [pc EXCEPT ![t] = "ret"]
           ELSE /\ loc' = [loc EXCEPT ![t] = [l EXCEPT !.obj = o]]
                /\ pc' = [pc EXCEPT ![t] = "t_stop"]
    /\ UNCHANGED <<registry, sessions, world, history>>

\* terminate(), wait(timeout=2), on expiry kill() and wait(): the process has
\* stopped and wait() has stored its exit status (601-639).
TerminateStop(t) ==
    /\ At(t, "t_stop")
    /\ LET o == loc[t].obj
           p == [proc[o] EXCEPT !.state = IF @ = "running" THEN "killed" ELSE @]
       IN  proc' = [proc EXCEPT ![o] = [p EXCEPT !.returncode = Some(ExitStatus(p))]]
    /\ pc' = [pc EXCEPT ![t] = "mv_get"]
    /\ UNCHANGED <<registry, sessions, reader, nobj, loc, history>>

\* (a deviation: the failed stop still removes the session from the active map)
TerminateStopRaisesAsDrop(t) ==
    /\ At(t, "t_stop")
    /\ loc' = [loc EXCEPT ![t].kind = "raised", ![t].value = FALSE]
    /\ active_terminal_sessions' = [active_terminal_sessions EXCEPT ![loc[t].session_id] = 0]
    /\ pc' = [pc EXCEPT ![t] = "ret"]
    /\ UNCHANGED <<completed_session_history, next_session_id, sessions, world, history>>

\* The stop sequence raises (the signal is refused and the fallback kill()
\* is refused too): the except clause returns False (647-649).
TerminateStopRaises(t) ==
    /\ At(t, "t_stop")
    /\ loc' = [loc EXCEPT ![t].kind = "raised", ![t].value = FALSE]
    /\ pc' = [pc EXCEPT ![t] = "ret"]
    /\ UNCHANGED <<registry, sessions, world, history>>

\* ------------------------------ get_list_of_all_active_sessions_with_status
\* (a deviation: listing marks the pending text of every session as read)
ListSessionsAsRead(t) ==
    /\ MayCall(t)
    /\ loc' = [loc EXCEPT ![t] = [NoLocals EXCEPT !.op = "list", !.kind = "list",
            !.ids = {[session_id |-> id,
                      is_completed |->
                          sess[active_terminal_sessions[id]].command_execution_has_completed,
                      has_new_output |->
                          Len(sess[active_terminal_sessions[id]].newly_available_output_since_last_read) > 0,
                      total_output_length |->
                          Len(sess[active_terminal_sessions[id]].accumulated_output_buffer)]
                     : id \in ActiveIds}]]
    /\ sess' = [o \in Objs |-> [sess[o] EXCEPT !.newly_available_output_since_last_read = <<>>]]
    /\ pc' = [pc EXCEPT ![t] = "ret"]
    /\ UNCHANGED <<registry, output_queue, world, history>>

ListSessions(t) ==
    /\ MayCall(t)
    /\ loc' = [loc EXCEPT ![t] = [NoLocals EXCEPT !.op = "list", !.kind = "list",
            !.ids = {[session_id |-> id,
                      is_completed |->
                          sess[active_terminal_sessions[id]].command_execution_has_completed,
                      has_new_output |->
                          Len(sess[active_terminal_sessions[id]].newly_available_output_since_last_read) > 0,
                      total_output_length |->
                          Len(sess[active_terminal_sessions[id]].accumulated_output_buffer)]
                     : id \in ActiveIds}]]
    /\ pc' = [pc EXCEPT ![t] = "ret"]
    /\ UNCHANGED <<registry, sessions, world, history>>

\* ------------------------------------------------------- specification
Start(t) ==
    \/ StartSpawn(t) \/ StartSpawnFails(t) \/ StartRegister(t) \/ StartThreadFails(t)
    \/ StartTimeout(t) \/ StartGet(t) \/ StartEmpty(t) \/ StartStore(t)
    \/ StartFinish(t)

Move(t) == MoveGet(t) \/ MovePut(t) \/ MoveEvict(t) \/ MoveDelete(t)

Read(t) ==
    \/ \E id \in Ids : ReadBegin(t, id)
    \/ ReadClear(t) \/ ReadTimeout(t) \/ ReadGet(t) \/ ReadEmpty(t) \/ ReadStore(t)

Terminate(t) ==
    \/ \E id \in Ids : TerminateBegin(t, id)
    \/ TerminateStop(t) \/ TerminateStopRaises(t)

Step(t) == Start(t) \/ Read(t) \/ Terminate(t) \/ Move(t) \/ ListSessions(t) \/ Return(t)

Env ==
    \E o \in Objs :
        \/ ProcEmit(o) \/ ProcExit(o)
        \/ ReaderLine(o) \/ ReaderEOF(o) \/ ReaderRest(o) \/ ReaderError(o)

Next == (\E t \in Callers : Step(t)) \/ Env

Spec == Init /\ [][Next]_vars

\* One caller: its calls never overlap.
SeqNext == Step(1) \/ Env

SeqSpec == Init /\ [][SeqNext]_vars

\* The manager after it has run for a while: sessions 1..capacity were
\* started, wrote nothing, were terminated while running and are retained in
\* the archive, which is therefore full; nothing else is left of them.
FullInit ==
    /\ active_terminal_sessions = [id \in Ids |-> 0]
    /\ completed_session_history =
           [i \in 1..maximum_completed_sessions_to_retain |->
               CompletedSession(i, NewSession(i))]
    /\ next_session_id = maximum_completed_sessions_to_retain + 1
    /\ nobj = 0
    /\ sess = [o \in Objs |-> NoSession]
    /\ output_queue = [o \in Objs |-> <<>>]
    /\ proc = [o \in Objs |-> [state |-> "none", emitted |-> 0, returncode |-> None, late |-> 0]]
    /\ reader = [o \in Objs |-> [pc |-> "none", pos |-> 0]]
    /\ pc = [t \in Callers |-> "idle"]
    /\ loc = [t \in Callers |-> NoLocals]
    /\ returned = [id \in Ids |-> 0]
    /\ terminated = 1..maximum_completed_sessions_to_retain

FullSpec == FullInit /\ [][Next]_vars

\* One caller and a manager that is new or has its archive already full.
SeqLongSpec == (Init \/ FullInit) /\ [][SeqNext]_vars

\* One caller whose calls return, and reader threads that are scheduled: a
\* reader thread that has a step to take eventually takes it.  The thread is
\* runnable all the time; it is held back only for the one step in which a
\* caller picks up its return value (Quiet), hence strong fairness.
ReaderStep(o) == ReaderLine(o) \/ ReaderEOF(o) \/ ReaderRest(o) \/ ReaderError(o)

FairSeqSpec ==
    /\ SeqSpec
    /\ WF_vars(Return(1))
    /\ \A o \in Objs : SF_vars(ReaderStep(o))

\* ================================================================ claims
\* Caller t's method op has executed its return statement.
Returns(t, op) == pc[t] = "ret" /\ loc[t].op = op

\* C1: with a single caller, initial_output of start followed by the outputs
\* returned by the reads of the session hands back every line the process
\* wrote once and in order: no line is returned twice and none is skipped.
C1_EveryChunkOnce == \A id \in Ids : returned[id] \notin {Repeated, Skipped}

\* C2: in every reachable state, whatever the interleaving of the callers, no
\* session id is a key of both the active map and the archive.
C2_NeverInBoth == ActiveIds \cap ArchiveIds = {}

\* C3: when start or read has dequeued the session's 'completed' item, the
\* session has left the active map once that call returns.
C3_ObservedExitArchived ==
    \A t \in Callers :
        (pc[t] = "ret" /\ loc[t].op \in {"start", "read"} /\ loc[t].item_type = "completed")
        => loc[t].session_id \notin ActiveIds

\* C4: whenever no call is in progress the archive holds at most
\* maximum_completed_sessions_to_retain entries, also after moves to the
\* archive that ran concurrently.
C4_ArchiveBounded ==
    (\A t \in Callers : pc[t] = "idle")
    => Len(completed_session_history) <= maximum_completed_sessions_to_retain

\* C5: the move evicts exactly when its insertion made the archive exceed the
\* capacity, and the eviction removes exactly one entry, the one whose id is
\* the lowest of all ids then in the archive (the inserted one included).
C5_EvictsLowestId ==
    [][\A t \in Callers :
          /\ (pc[t] = "mv_put" /\ pc'[t] # "mv_put")
             => /\ HasKey(completed_session_history', loc[t].session_id)
                /\ pc'[t] = (IF Len(completed_session_history')
                                    > maximum_completed_sessions_to_retain
                             THEN "mv_evict" ELSE "mv_del")
          /\ (pc[t] = "mv_evict" /\ pc'[t] # "mv_evict")
             => /\ pc'[t] = "mv_del"
                /\ Len(completed_session_history') = Len(completed_session_history) - 1
                /\ \E x \in ArchiveIds :
                      /\ \A y \in ArchiveIds : x <= y
                      /\ ArchiveIds' = ArchiveIds \ {x}
                      /\ completed_session_history' = DictDel(completed_session_history, x)
      ]_vars

C5_Witness ==
    \E t \in Callers :
        /\ pc[t] = "mv_del"
        /\ loc[t].oldest_session_id \notin {0, loc[t].session_id}
        /\ ~HasKey(completed_session_history, loc[t].oldest_session_id)
        /\ HasKey(completed_session_history, loc[t].session_id)

\* C6: the entry a move is about to evict is the one that was archived
\* earliest, i.e. the first in the archive's insertion order.
C6_EvictsEarliestArchived ==
    \A t \in Callers :
        pc[t] = "mv_evict"
        => loc[t].oldest_session_id = completed_session_history[1].process_id

\* C7 as stated: a terminate call that finds the id in the active map when no
\* terminate call has returned True for it (the first call on a live id is
\* such a call) returns True, and every terminate call made after one has
\* returned True for the id returns False.
C7_Idempotent ==
    \A t \in Callers :
        Returns(t, "terminate")
        => /\ (loc[t].obj # 0 /\ ~loc[t].again) => loc[t].value
           /\ loc[t].again => ~loc[t].value

\* C7 amended: a terminate call that finds the id in the active map returns
\* True unless its stop sequence raises, and every terminate call made after
\* one has returned True for the id returns False.
C7_IdempotentUnlessRaised ==
    \A t \in Callers :
        Returns(t, "terminate")
        => /\ (loc[t].obj # 0 /\ loc[t].kind # "raised") => loc[t].value
           /\ loc[t].again => ~loc[t].value

C7_Witness ==
    \E t \in Callers :
        Returns(t, "terminate") /\ loc[t].again /\ ~loc[t].value

\* C8: a terminate call for an id that has no entry in the active map returns
\* False in its first statement, and neither that statement nor the return
\* changes the active map, the archive or next_session_id.
C8_TerminateAbsentNoEffect ==
    [][\A t \in Callers :
          /\ (pc[t] = "idle" /\ pc'[t] # "idle" /\ loc'[t].op = "terminate"
                 /\ loc'[t].session_id \notin ActiveIds)
             => (pc'[t] = "ret" /\ ~loc'[t].value /\ registry' = registry)
          /\ (Returns(t, "terminate") /\ loc[t].kind = "not_active")
             => registry' = registry
      ]_vars

C8_Witness ==
    \E t \in Callers :
        /\ Returns(t, "terminate") /\ loc[t].kind = "not_active"
        /\ HasKey(completed_session_history, loc[t].session_id)

\* C9: when terminate returns True the id has no entry in the active map and
\* the call has written an archive entry built from the session's fields
\* (which is in the archive unless the call's own eviction removed it); and
\* no list result reports an id for which terminate has returned True.
C9_TerminatedIsArchived ==
    /\ \A t \in Callers :
          (Returns(t, "terminate") /\ loc[t].value)
          => LET id == loc[t].session_id
                 s == sess[loc[t].obj]
                 c == loc[t].completed_session
             IN  /\ id \notin ActiveIds
                 /\ loc[t].wrote
                 /\ c.process_id = id
                 /\ c.complete_output_text = s.accumulated_output_buffer
                 /\ c.final_exit_code = s.last_exit_code
                 /\ IF HasKey(completed_session_history, id)
                    THEN completed_session_history[IndexOf(completed_session_history, id)] = c
                    ELSE loc[t].oldest_session_id = id
    /\ \A t \in Callers :
          Returns(t, "list") => \A e \in loc[t].ids : e.session_id \notin terminated

C9_Witness ==
    \E t \in Callers :
        Returns(t, "list") /\ loc[t].ids # {} /\ terminated # {}

\* C10: when terminate has stopped a running process and returns True, the
\* final_exit_code of the archive entry it built is the exit status the
\* stopped process left in returncode.
C10_RecordsExitStatus ==
    \A t \in Callers :
        (Returns(t, "terminate") /\ loc[t].value /\ proc[loc[t].obj].state = "killed")
        => loc[t].completed_session.final_exit_code = proc[loc[t].obj].returncode

C12_QuickCommandFullOutput ==
    \A t \in Callers :
        (Returns(t, "start") /\ loc[t].kind = "started" /\ ~loc[t].value)
        => loc[t].out = Lines(0, proc[loc[t].obj].emitted)

CompletedDequeued(o) ==
    /\ reader[o].pc = "done"
    /\ \A i \in DOMAIN output_queue[o] : output_queue[o][i].type # "completed"

C15_IdsIncreasing ==
    [][/\ (nobj = 0 /\ terminated = {}) => next_session_id = 1
       /\ \A id \in ActiveIds \cup ArchiveIds : id < next_session_id
       /\ next_session_id' >= next_session_id
       /\ \A id \in Ids :
             (active_terminal_sessions[id] = 0 /\ active_terminal_sessions'[id] # 0)
             => (id = next_session_id /\ next_session_id' = id + 1)
       /\ ArchiveIds' \subseteq ArchiveIds \cup ActiveIds
      ]_vars

\* a session registered after an earlier id was archived and evicted
C15_Witness ==
    \E id \in ActiveIds :
        /\ id + 1 = next_session_id
        /\ \E old \in terminated, mid \in ArchiveIds :
              /\ old < mid /\ mid < id
              /\ old \notin ActiveIds \cup ArchiveIds

\* C16: two start calls in progress at the same time hold different session
\* ids.
C16_ConcurrentStartsDistinctIds ==
    \A t, u \in Callers :
        (t # u /\ loc[t].op = "start" /\ loc[u].op = "start"
              /\ loc[t].session_id \in Ids /\ loc[u].session_id \in Ids)
        => loc[t].session_id # loc[u].session_id

\* Caller t is inside a move, after its first registry write (the archive
\* insertion, 685) and before its last (the deletion of the active entry, 693).
InMove(t) == pc[t] \in {"mv_evict", "mv_del"}

\* C17: no two callers are at the same time between the first and the last
\* registry write of a mutation.
C17_MutationsExclusive ==
    \A t, u \in Callers : (InMove(t) /\ InMove(u)) => t = u

\* C18: no caller is about to write the archive entry of an id that already
\* has one, and no move ends half-way with a KeyError.
C18_ArchivedOnce ==
    \A t \in Callers :
        /\ pc[t] = "mv_put" => ~HasKey(completed_session_history, loc[t].session_id)
        /\ pc[t] = "ret" => loc[t].kind # "keyerror"

\* C19: a read of an id that is in neither the active map nor the archive
\* returns in its first step "No session found" with timeout_reached False,
\* never entering the wait loop, and neither that step nor the return changes
\* the active map, the archive or next_session_id.
C19_ReadUnknownNoEffect ==
    [][\A t \in Callers :
          /\ (pc[t] = "idle" /\ pc'[t] # "idle" /\ loc'[t].op = "read"
                 /\ loc'[t].session_id \notin ActiveIds \cup ArchiveIds)
             => /\ pc'[t] = "ret"
                /\ loc'[t].kind = "no_session"
                /\ ~loc'[t].value
                /\ registry' = registry
          /\ (Returns(t, "read") /\ loc[t].kind = "no_session") => registry' = registry
      ]_vars

\* a read of an id that was archived and evicted
C19_Witness ==
    \E t \in Callers :
        /\ Returns(t, "read") /\ loc[t].kind = "no_session"
        /\ loc[t].session_id \in terminated

\* C20: a read of an archived id returns in its first step, without waiting,
\* the summary made of the entry's exit code and output text with
\* timeout_reached False, and neither that step nor the return changes the
\* archive, the active map, next_session_id or any session; so the next read
\* of the id finds the same entry.
C20_ReadArchivedNoEffect ==
    [][\A t \in Callers :
          /\ (pc[t] = "idle" /\ pc'[t] # "idle" /\ loc'[t].op = "read"
                 /\ HasKey(completed_session_history, loc'[t].session_id))
             => LET c == completed_session_history[
                             IndexOf(completed_session_history, loc'[t].session_id)]
                IN  /\ pc'[t] = "ret"
                    /\ loc'[t].kind = "summary"
                    /\ ~loc'[t].value
                    /\ loc'[t].out = c.complete_output_text
                    /\ loc'[t].code = c.final_exit_code
                    /\ registry' = registry
                    /\ sessions' = sessions
          /\ (Returns(t, "read") /\ loc[t].kind = "summary")
             => registry' = registry /\ sessions' = sessions
      ]_vars

C20_Witness ==
    \E t \in Callers :
        /\ Returns(t, "read") /\ loc[t].kind = "summary"
        /\ loc[t].out # <<>> /\ loc[t].code # None

\* C21: a read of an active session whose pending text is not empty takes
\* that text in its first step and, in its second, empties the pending text
\* and returns exactly the text taken with timeout_reached False; between the
\* call and the return the session's queue loses no item and the accumulated
\* buffer keeps its value.
C21_ReadPendingOnly ==
    [][\A t \in Callers :
          /\ (pc[t] = "idle" /\ pc'[t] # "idle" /\ loc'[t].op = "read"
                 /\ loc'[t].session_id \in ActiveIds
                 /\ sess[active_terminal_sessions[loc'[t].session_id]]
                        .newly_available_output_since_last_read # <<>>)
             => /\ pc'[t] = "r_clear"
                /\ loc'[t].obj = active_terminal_sessions[loc'[t].session_id]
                /\ loc'[t].out = sess[loc'[t].obj].newly_available_output_since_last_read
                /\ sessions' = sessions
          /\ pc[t] = "r_clear"
             => /\ Len(output_queue'[loc[t].obj]) >= Len(output_queue[loc[t].obj])
                /\ sess'[loc[t].obj].accumulated_output_buffer
                      = sess[loc[t].obj].accumulated_output_buffer
                /\ loc[t].out = sess[loc[t].obj].newly_available_output_since_last_read
                /\ pc'[t] # "r_clear"
                   => /\ pc'[t] = "ret"
                      /\ loc'[t].kind = "pending"
                      /\ ~loc'[t].value
                      /\ loc'[t].out = loc[t].out
                      /\ sess'[loc[t].obj].newly_available_output_since_last_read = <<>>
                      /\ output_queue' = output_queue
      ]_vars

\* the read returns pending text while an item waits in the queue
C21_Witness ==
    \E t \in Callers :
        /\ Returns(t, "read") /\ loc[t].kind = "pending"
        /\ loc[t].out # <<>>
        /\ output_queue[loc[t].obj] # <<>>
        /\ sess[loc[t].obj].newly_available_output_since_last_read = <<>>

\* The reader of session object o has put its 'error' item and a caller has
\* taken it from the queue.
ErrorProcessed(o) ==
    /\ reader[o].pc = "failed"
    /\ \A i \in DOMAIN output_queue[o] : output_queue[o][i].type # "error"

\* C22: once the 'error' item of a session has been taken from its queue, no
\* step of a start, read or list call removes the session from the active map
\* or creates an archive entry for its id (only terminate does); the start
\* or read that took the item returns with the session still active and not
\* archived, and start returns the session's own id, not -1.
C22_ErrorLeavesSessionActive ==
    [][/\ \A id \in Ids :
             LET o == active_terminal_sessions[id]
             IN  (o # 0 /\ ErrorProcessed(o) /\ \A t \in Callers : loc[t].op # "terminate")
                 => /\ active_terminal_sessions'[id] = o
                    /\ ~HasKey(completed_session_history', id)
       /\ \A t \in Callers :
             (pc[t] = "ret" /\ loc[t].op \in {"start", "read"} /\ loc[t].kind = "error")
             => /\ loc[t].session_id \in Ids
                /\ active_terminal_sessions[loc[t].session_id] = loc[t].obj
                /\ sess[loc[t].obj].process_id = loc[t].session_id
                /\ ErrorProcessed(loc[t].obj)
                /\ ~HasKey(completed_session_history, loc[t].session_id)
                /\ ~loc[t].value
      ]_vars

\* a read returns on a session whose error start has reported before
C22_Witness ==
    \E t \in Callers :
        /\ Returns(t, "read") /\ loc[t].kind # "error"
        /\ loc[t].obj # 0 /\ ErrorProcessed(loc[t].obj)
        /\ active_terminal_sessions[loc[t].session_id] = loc[t].obj
        /\ ~sess[loc[t].obj].command_execution_has_completed

\* the text of the output items of a queue, in queue order
RECURSIVE QueueText(_)
QueueText(q) ==
    IF q = <<>> THEN <<>>
    ELSE (IF Head(q).type = "output" THEN Head(q).content ELSE <<>>) \o QueueText(Tail(q))

\* the content a caller has taken from o's queue and not yet stored
Held(o) ==
    IF \E t \in Callers : loc[t].obj = o /\ pc[t] \in {"s_store", "r_store"}
    THEN loc[CHOOSE t \in Callers : loc[t].obj = o /\ pc[t] \in {"s_store", "r_store"}].content
    ELSE <<>>

\* every line the reader of o has read is in the accumulated buffer, in a
\* caller's hands or in the queue, in the order it was written
NotLost(o) ==
    sess[o].accumulated_output_buffer \o Held(o) \o QueueText(output_queue[o])
        = Lines(0, reader[o].pos)

\* caller t's start has returned "still running" or its read has timed out
WindowExpired(t) ==
    /\ pc[t] = "ret"
    /\ \/ loc[t].op = "start" /\ loc[t].kind = "started" /\ loc[t].value
       \/ loc[t].op = "read" /\ loc[t].kind = "timeout"

\* the expiry of a window leaves the session registered and touches neither
\* its reader nor its queue nor its buffers
ExpiryKeepsSession ==
    [][\A t \in Callers :
          /\ (pc[t] \in {"s_fin", "r_loop"} /\ pc'[t] = "ret" /\ WindowExpired(t)')
             => UNCHANGED <<registry, sessions, world>>
          /\ WindowExpired(t)
             => /\ active_terminal_sessions[loc[t].session_id] = loc[t].obj
                /\ active_terminal_sessions' = active_terminal_sessions
                /\ reader'[loc[t].obj] = reader[loc[t].obj]
                /\ output_queue'[loc[t].obj] = output_queue[loc[t].obj]
                /\ sess'[loc[t].obj] = sess[loc[t].obj]
      ]_vars

C24_FailedStopKeepsRegistration ==
    [][\A t \in Callers :
          /\ (pc[t] = "t_stop" /\ pc'[t] # "t_stop" /\ loc'[t].kind = "raised")
             => /\ pc'[t] = "ret"
                /\ ~loc'[t].value
                /\ registry' = registry
                /\ sessions' = sessions
          /\ (Returns(t, "terminate") /\ loc[t].kind = "raised")
             => /\ ~loc[t].value
                /\ active_terminal_sessions[loc[t].session_id] = loc[t].obj
                /\ loc[t].obj # 0
                /\ ~HasKey(completed_session_history, loc[t].session_id)
                /\ loc[t].session_id \notin terminated
                /\ registry' = registry
      ]_vars

C24_Witness ==
    \E t \in Callers :
        /\ Returns(t, "terminate") /\ loc[t].kind = "raised"
        /\ loc[t].session_id \in ActiveIds
        /\ proc[loc[t].obj].state = "running"

\* C25: list returns in one step one entry for each id of the active map and
\* for no other id, each entry carrying that session's completed flag, whether
\* its pending text is non-empty and the length of its accumulated buffer;
\* neither the call nor its return changes the active map, the archive, the
\* id counter, a session's buffers or a queue.
C25_ListReadOnly ==
    [][\A t \in Callers :
          /\ (pc[t] = "idle" /\ pc'[t] # "idle" /\ loc'[t].op = "list")
             => /\ pc'[t] = "ret"
                /\ {e.session_id : e \in loc'[t].ids} = ActiveIds
                /\ Cardinality(loc'[t].ids) = Cardinality(ActiveIds)
                /\ \A e \in loc'[t].ids :
                      LET s == sess[active_terminal_sessions[e.session_id]]
                      IN  /\ e.is_completed = s.command_execution_has_completed
                          /\ e.has_new_output = (s.newly_available_output_since_last_read # <<>>)
                          /\ e.total_output_length = Len(s.accumulated_output_buffer)
                /\ UNCHANGED <<registry, sessions, world, history>>
          /\ Returns(t, "list")
             => /\ {e.session_id : e \in loc[t].ids} = ActiveIds
                /\ UNCHANGED <<registry, sessions, world, history>>
      ]_vars

\* list reports a session with unread output while another id is archived
C25_Witness ==
    \E t \in Callers :
        /\ Returns(t, "list")
        /\ ArchiveIds # {}
        /\ \E e \in loc[t].ids : e.has_new_output /\ e.total_output_length > 0

\* C26: when _move_session_to_completed builds the archive entry of a session,
\* for a read that has dequeued 'completed' or for terminate, the entry's
\* output text is everything the session's reader has enqueued: the
\* accumulated buffer followed by the output items still in the queue.
C26_ArchiveHoldsFullOutput ==
    [][\A t \in Callers :
          (pc[t] = "mv_get" /\ pc'[t] = "mv_put")
          => LET o == active_terminal_sessions[loc[t].session_id]
             IN  loc'[t].completed_session.complete_output_text
                   = sess[o].accumulated_output_buffer \o QueueText(output_queue[o])
      ]_vars

Terminal(item) == item.type \in {"completed", "error"}

\* the items a step has appended to the queue of o
Appended(o) ==
    SubSeq(output_queue'[o], Len(output_queue[o]) + 1, Len(output_queue'[o]))

\* a queue holds at most one terminal item, and only as its last item
TerminalLast(q) == \A i \in DOMAIN q : Terminal(q[i]) => i = Len(q)

\* C27: the reader of a session appends to the queue, in the order of the
\* stream, the text it reads; it puts exactly one terminal item: 'completed'
\* when it has read the stream to its end (after the remainder, if any, as an
\* output item) or 'error' when reading fails, never both; and once it has put
\* the terminal item it puts nothing more.
C27_ReaderOneTerminalEvent ==
    /\ [](\A o \in Objs :
             /\ TerminalLast(output_queue[o])
             /\ reader[o].pc \in {"loop", "rest"}
                => \A i \in DOMAIN output_queue[o] : ~Terminal(output_queue[o][i]))
    /\ [][\A o \in Objs :
             /\ Len(output_queue'[o]) > Len(output_queue[o])
                => /\ reader[o].pc \in {"loop", "rest"}
                   /\ SubSeq(output_queue'[o], 1, Len(output_queue[o])) = output_queue[o]
                   /\ TerminalLast(Appended(o))
                   /\ LET last == Appended(o)[Len(Appended(o))]
                      IN  CASE last.type = "completed" ->
                                 /\ reader'[o].pc = "done"
                                 /\ proc[o].state # "running"
                                 /\ reader'[o].pos = proc[o].emitted
                                 /\ QueueText(Appended(o))
                                       = Lines(reader[o].pos, reader'[o].pos)
                            [] last.type = "error" ->
                                 /\ reader'[o].pc = "failed"
                                 /\ Len(Appended(o)) = 1
                            [] OTHER ->
                                 /\ reader'[o].pc \in {"loop", "rest"}
                                 /\ QueueText(Appended(o))
                                       = Lines(reader[o].pos, reader'[o].pos)
             /\ reader[o].pc \in {"done", "failed"}
                => /\ Len(output_queue'[o]) <= Len(output_queue[o])
                   /\ reader'[o].pc \in {reader[o].pc, "gone"}
      ]_vars

\* the reader has ended with 'completed' right after an output item
C27_Witness ==
    \E o \in Objs :
        /\ reader[o].pc = "done"
        /\ Len(output_queue[o]) >= 2
        /\ output_queue[o][Len(output_queue[o])].type = "completed"
        /\ output_queue[o][Len(output_queue[o]) - 1].type = "output"

IsPrefix(a, b) == Len(a) <= Len(b) /\ SubSeq(b, 1, Len(a)) = a

\* C28: whatever the interleaving of the callers that consume a session's
\* queue, the session's accumulated buffer is a prefix of what its process
\* wrote, and a step only appends to it (until the session object is dropped).
C28_AccumulatedIsPrefix ==
    /\ [](\A id \in ActiveIds :
             LET o == active_terminal_sessions[id]
             IN  IsPrefix(sess[o].accumulated_output_buffer, Lines(0, proc[o].emitted)))
    /\ [][\A id \in ActiveIds :
             LET o == active_terminal_sessions[id]
             IN  active_terminal_sessions'[id] = o
                 => IsPrefix(sess[o].accumulated_output_buffer,
                             sess'[o].accumulated_output_buffer)
      ]_vars

\* C29: two read calls that work on the same session at the same time never
\* hold the same line as text to return: neither the pending text nor a
\* queued output item goes to both.
C29_ReadsShareNothing ==
    \A t \in Callers : \A u \in Callers \ {t} :
        (/\ loc[t].op = "read" /\ loc[u].op = "read"
         /\ loc[t].obj # 0 /\ loc[t].obj = loc[u].obj)
        => \A i \in DOMAIN loc[t].out : \A j \in DOMAIN loc[u].out :
              loc[t].out[i] # loc[u].out[j]

\* caller t's call has archived its session and evicted that same entry
SelfEvicted(t) ==
    /\ loc[t].op \in {"read", "terminate"}
    /\ loc[t].wrote
    /\ loc[t].oldest_session_id = loc[t].session_id

====
